---- MODULE Spec2Model ----
(***************************************************************************)
(* Model of src/main.ts: the Helix keybinding plugin.                      *)
(*                                                                         *)
(* State: the plugin instance's settings and extensions array, the         *)
(* persisted data record, the async calls suspended at their await on      *)
(* persistence, the extension array content the editor has realised, the   *)
(* notices shown, and the last keydown event dispatched with its outcome.  *)
(***************************************************************************)
EXTENDS Integers, Sequences, FiniteSets, TLC

VARIABLES pc, settings, extensions, data, pending, active, notices, event

vars == <<pc, settings, extensions, data, pending, active, notices, event>>

(***************************************************************************)
(* Bounds of the model.                                                    *)
(***************************************************************************)
\* Async calls that may be suspended at an await at the same time.
MaxPending == 2
\* Notices shown in one run.
MaxNotices == 2

(***************************************************************************)
(* Values.                                                                 *)
(***************************************************************************)
\* An optional value: <<>> is undefined/absent, <<v>> is v.
None == <<>>
Some(v) == <<v>>

\* The options the dropdown offers (main.ts:128-129).
DropdownOptions == {"block", "bar"}

\* Cursor values a persisted record may hold: nothing validates them on load.
PersistedCursors == DropdownOptions \cup {"underline"}

\* Key identifiers of the keydown events delivered.
Keys == {"Backspace", "Enter", "z", "Z", "a"}

\* this.settings before loadSettings has assigned it.
Undefined == [undefined |-> TRUE]

\* DEFAULT_SETTINGS of src/logic.
DEFAULT_SETTINGS == [enableHelixKeybindings |-> FALSE, cursorInInsertMode |-> "bar"]

\* What loadData() may return: each field present or missing (null and {} alike).
PersistedRecords ==
    [enableHelixKeybindings : {None} \cup {Some(b) : b \in BOOLEAN},
     cursorInInsertMode     : {None} \cup {Some(c) : c \in PersistedCursors}]

(***************************************************************************)
(* Settings store.                                                         *)
(***************************************************************************)
\* The merge with its arguments swapped: the defaults override the stored record.
loadSettingsDefaultsWin(stored) == DEFAULT_SETTINGS

\* Object.assign({}, DEFAULT_SETTINGS, stored): a field the stored record has wins.
loadSettings(stored) ==
    [enableHelixKeybindings |->
        IF stored.enableHelixKeybindings = None
            THEN DEFAULT_SETTINGS.enableHelixKeybindings
            ELSE stored.enableHelixKeybindings[1],
     cursorInInsertMode |->
        IF stored.cursorInInsertMode = None
            THEN DEFAULT_SETTINGS.cursorInInsertMode
            ELSE stored.cursorInInsertMode[1]]

\* saveData(this.settings): the record written holds every field of the settings.
saveData(s) ==
    [enableHelixKeybindings |-> Some(s.enableHelixKeybindings),
     cursorInInsertMode     |-> Some(s.cursorInInsertMode)]

(***************************************************************************)
(* Extensions.                                                             *)
(***************************************************************************)
DEFAULT_EDITOR_VIEW == [ext |-> "DEFAULT_EDITOR_VIEW", config |-> None]

helix(cursor) == [ext |-> "helix", config |-> Some(cursor)]

domEventHandlers == [ext |-> "keydown", config |-> None]

PrecHigh(e) == [prec |-> "high", ext |-> e.ext, config |-> e.config]

PrecHighest(e) == [prec |-> "highest", ext |-> e.ext, config |-> e.config]

\* this.extensions.length = 0 left out: the entries of earlier calls stay.
rebuildNoClear(exts, value, s) ==
    IF value
        THEN exts \o <<PrecHigh(DEFAULT_EDITOR_VIEW),
                       PrecHigh(helix(s.cursorInInsertMode)),
                       PrecHighest(domEventHandlers)>>
        ELSE exts

\* The interceptor pushed with Prec.high, like the two entries before it.
rebuildHigh(exts, value, s) ==
    IF value
        THEN <<PrecHigh(DEFAULT_EDITOR_VIEW),
               PrecHigh(helix(s.cursorInInsertMode)),
               PrecHigh(domEventHandlers)>>
        ELSE <<>>

\* The engine pushed before the editor defaults.
rebuildEngineFirst(exts, value, s) ==
    IF value
        THEN <<PrecHigh(helix(s.cursorInInsertMode)),
               PrecHigh(DEFAULT_EDITOR_VIEW),
               PrecHighest(domEventHandlers)>>
        ELSE <<>>

\* The array left as it is when disabling.
rebuildKeepOnDisable(exts, value, s) ==
    IF value
        THEN <<PrecHigh(DEFAULT_EDITOR_VIEW),
               PrecHigh(helix(s.cursorInInsertMode)),
               PrecHighest(domEventHandlers)>>
        ELSE exts

\* setEnabled, lines 59-89: the array is emptied, then refilled when value is true.
rebuild(exts, value, s) ==
    LET cleared == SubSeq(exts, 1, 0)
    IN  IF value
            THEN cleared \o <<PrecHigh(DEFAULT_EDITOR_VIEW),
                              PrecHigh(helix(s.cursorInInsertMode)),
                              PrecHighest(domEventHandlers)>>
            ELSE cleared

(***************************************************************************)
(* The keydown interceptor.                                                *)
(***************************************************************************)
UNHANDLED_KEYS == {"Backspace", "Enter"}

UNHANDLED_COMBOS == <<[key |-> "z", ctrl |-> Some(TRUE), meta |-> None, alt |-> None]>>

\* A modifier the combo leaves out counts as a mismatch.
comboMatchesStrict(combo, ev) ==
    /\ ev.key = combo.key
    /\ combo.ctrl = Some(ev.ctrlKey)
    /\ combo.meta = Some(ev.metaKey)
    /\ combo.alt  = Some(ev.altKey)

\* The modifier tests left out: the key alone decides.
comboMatchesKeyOnly(combo, ev) == ev.key = combo.key

\* The callback of UNHANDLED_COMBOS.some, lines 22-27.
comboMatches(combo, ev) ==
    /\ ev.key = combo.key
    /\ (combo.ctrl = None \/ ev.ctrlKey = combo.ctrl[1])
    /\ (combo.meta = None \/ ev.metaKey = combo.meta[1])
    /\ (combo.alt  = None \/ ev.altKey  = combo.alt[1])

isUnhandledCombo(ev) ==
    \E i \in 1..Len(UNHANDLED_COMBOS) : comboMatches(UNHANDLED_COMBOS[i], ev)

BlockCursor == "cm-hx-block-cursor"

\* The mode test of line 77 left out.
keydownAnyMode(ev, view) ==
    IF ev.key \in UNHANDLED_KEYS \/ isUnhandledCombo(ev)
        THEN [ret |-> TRUE, calls |-> <<"preventDefault", "stopPropagation">>]
        ELSE [ret |-> FALSE, calls |-> <<>>]

\* stopPropagation called before preventDefault.
keydownSwapped(ev, view) ==
    IF BlockCursor \notin view.classList
        THEN [ret |-> FALSE, calls |-> <<>>]
        ELSE IF ev.key \in UNHANDLED_KEYS \/ isUnhandledCombo(ev)
            THEN [ret |-> TRUE, calls |-> <<"stopPropagation", "preventDefault">>]
            ELSE [ret |-> FALSE, calls |-> <<>>]

\* The handler of lines 75-86: what it returns and the event methods it calls, in order.
keydown(ev, view) ==
    LET isNormalOrSelect == BlockCursor \in view.classList
    IN  IF ~isNormalOrSelect
            THEN [ret |-> FALSE, calls |-> <<>>]
            ELSE IF ev.key \in UNHANDLED_KEYS \/ isUnhandledCombo(ev)
                THEN [ret |-> TRUE, calls |-> <<"preventDefault", "stopPropagation">>]
                ELSE [ret |-> FALSE, calls |-> <<>>]

\* The order in which the editor calls the handlers of an extension array:
\* by precedence tier, and within a tier in array order.
DispatchOrder(exts) ==
    SelectSeq(exts, LAMBDA e : e.prec = "highest") \o
    SelectSeq(exts, LAMBDA e : e.prec = "high")

\* The handlers called for one event, in order: a handler that returns true
\* ends the dispatch. consumers are the other extensions that handle this event.
RECURSIVE Deliver(_, _, _, _)
Deliver(order, ev, view, consumers) ==
    IF order = <<>>
        THEN <<>>
        ELSE LET h   == Head(order)
                 out == IF h.ext = "keydown"
                            THEN keydown(ev, view)
                            ELSE [ret |-> h.ext \in consumers, calls |-> <<>>]
             IN  <<[ext |-> h.ext, ret |-> out.ret, calls |-> out.calls]>> \o
                 (IF out.ret THEN <<>> ELSE Deliver(Tail(order), ev, view, consumers))

NoEvent ==
    [key |-> "", ctrlKey |-> FALSE, metaKey |-> FALSE, altKey |-> FALSE,
     classList |-> {}, handled |-> <<>>]

(***************************************************************************)
(* Lifecycle.                                                              *)
(***************************************************************************)
RemoveAt(q, i) == SubSeq(q, 1, i - 1) \o SubSeq(q, i + 1, Len(q))

Message(value) == IF value THEN "Enabled Helix keybindings" ELSE "Disabled Helix keybindings"

\* The frame of an async call suspended at its await on saveData.
Frame(fn, value, reload, print, caller, s) ==
    [fn |-> fn, value |-> value, reload |-> reload, print |-> print,
     caller |-> caller, saved |-> saveData(s)]

\* Settings persisted only when enabling.
setEnabledSaveWhenEnabling(s, value, reload, print, caller, rest) ==
    /\ settings' = [s EXCEPT !.enableHelixKeybindings = value]
    /\ extensions' = rebuild(extensions, value, s)
    /\ pending' = IF value
                    THEN Append(rest, Frame("setEnabled", value, reload, print, caller, settings'))
                    ELSE rest

\* setEnabled up to its await, lines 58-91: s is this.settings at the call,
\* rest the other calls in flight.
setEnabled(s, value, reload, print, caller, rest) ==
    /\ settings' = [s EXCEPT !.enableHelixKeybindings = value]
    /\ extensions' = rebuild(extensions, value, s)
    /\ pending' = Append(rest, Frame("setEnabled", value, reload, print, caller, settings'))

Init ==
    /\ pc = "constructed"
    /\ settings = Undefined
    /\ extensions = <<>>
    /\ data \in PersistedRecords
    /\ pending = <<>>
    /\ active = <<>>
    /\ notices = <<>>
    /\ event = NoEvent

\* onload up to its first await, line 35.
OnloadBegin ==
    /\ pc = "constructed"
    /\ pc' = "loadSettings"
    /\ UNCHANGED <<settings, extensions, data, pending, active, notices, event>>

\* loadData resolves: lines 50 and 36-38, up to the await inside setEnabled.
OnloadLoaded ==
    /\ pc = "loadSettings"
    /\ pc' = "setEnabled"
    /\ LET loaded == loadSettings(data)
       IN  setEnabled(loaded, loaded.enableHelixKeybindings, FALSE, FALSE, "onload", pending)
    /\ UNCHANGED <<data, active, notices, event>>

Printing == {i \in DOMAIN pending : pending[i].print}

\* The command's callback, line 43.
ToggleCommand ==
    /\ pc = "done"
    /\ Len(pending) < MaxPending
    /\ Len(notices) + Cardinality(Printing) < MaxNotices
    /\ setEnabled(settings, ~settings.enableHelixKeybindings, TRUE, TRUE, "command", pending)
    /\ UNCHANGED <<pc, data, active, notices, event>>

\* The toggle's onChange, line 122.
SettingToggle ==
    /\ pc \in {"setEnabled", "done"}
    /\ Len(pending) < MaxPending
    /\ \E value \in BOOLEAN :
          setEnabled(settings, value, TRUE, FALSE, "toggle", pending)
    /\ UNCHANGED <<pc, data, active, notices, event>>

\* The dropdown's onChange up to its first await, lines 131-134.
DropdownChange ==
    /\ pc \in {"setEnabled", "done"}
    /\ Len(pending) < MaxPending
    /\ \E value \in DropdownOptions :
          /\ value = "block" \/ value = "bar"
          /\ settings' = [settings EXCEPT !.cursorInInsertMode = value]
          /\ pending' = Append(pending, Frame("onChange", FALSE, FALSE, FALSE, "dropdown", settings'))
    /\ UNCHANGED <<pc, extensions, data, active, notices, event>>

\* The write of a dropdown change completes: line 135, reload() calls setEnabled.
ResumeOnChange ==
    \E i \in DOMAIN pending :
        /\ pending[i].fn = "onChange"
        /\ data' = pending[i].saved
        /\ setEnabled(settings, settings.enableHelixKeybindings, TRUE, FALSE, "reload",
                      RemoveAt(pending, i))
        /\ UNCHANGED <<pc, active, notices, event>>

\* The write of a setEnabled call completes: lines 92-96, and for the call
\* onload made, lines 39-44.
ResumeSetEnabled ==
    \E i \in DOMAIN pending :
        LET f == pending[i]
            updated == IF f.reload /\ pc = "done" THEN extensions ELSE active
        IN  /\ f.fn = "setEnabled"
            /\ data' = f.saved
            /\ pending' = RemoveAt(pending, i)
            /\ notices' = IF f.print THEN Append(notices, Message(f.value)) ELSE notices
            /\ active' = IF f.caller = "onload" THEN extensions ELSE updated
            /\ pc' = IF f.caller = "onload" THEN "done" ELSE pc
            /\ UNCHANGED <<settings, extensions, event>>

\* No keydown event is being dispatched.
Idle == event = NoEvent

\* The editor delivers a keydown event to the handlers of the realised extensions.
Keydown ==
    /\ Idle
    /\ \E key \in Keys, ctrl \in BOOLEAN, meta \in BOOLEAN, alt \in BOOLEAN,
          marker \in BOOLEAN, consumers \in SUBSET {"DEFAULT_EDITOR_VIEW", "helix"} :
          LET ev   == [key |-> key, ctrlKey |-> ctrl, metaKey |-> meta, altKey |-> alt]
              view == [classList |-> IF marker THEN {"cm-scroller", BlockCursor}
                                               ELSE {"cm-scroller"}]
          IN  event' = [key |-> key, ctrlKey |-> ctrl, metaKey |-> meta, altKey |-> alt,
                        classList |-> view.classList,
                        handled |-> Deliver(DispatchOrder(active), ev, view, consumers)]
    /\ UNCHANGED <<pc, settings, extensions, data, pending, active, notices>>

\* The dispatch of the event ends.
KeydownDone ==
    /\ ~Idle
    /\ event' = NoEvent
    /\ UNCHANGED <<pc, settings, extensions, data, pending, active, notices>>

\* The lifecycle: onload, the command, the settings panel and the completions
\* of their writes, in every interleaving.
Next ==
    \/ OnloadBegin
    \/ OnloadLoaded
    \/ ToggleCommand
    \/ SettingToggle
    \/ DropdownChange
    \/ ResumeOnChange
    \/ ResumeSetEnabled

Spec == Init /\ [][Next]_vars

\* No async call is in flight.
Awaited == pending = <<>>

\* The lifecycle with every handler awaited before the next one starts, and the
\* keydown events the editor dispatches meanwhile, each handled to completion.
ScenarioNext ==
    \/ Idle /\ OnloadBegin
    \/ Idle /\ OnloadLoaded
    \/ Idle /\ Awaited /\ ToggleCommand
    \/ Idle /\ Awaited /\ SettingToggle
    \/ Idle /\ Awaited /\ DropdownChange
    \/ Idle /\ ResumeOnChange
    \/ Idle /\ ResumeSetEnabled
    \/ Keydown
    \/ KeydownDone

ScenarioSpec == Init /\ [][ScenarioNext]_vars

(***************************************************************************)
(* Properties.                                                             *)
(***************************************************************************)
\* The entries of the dispatched event's log that are the interceptor's.
Intercepted == {i \in DOMAIN event.handled : event.handled[i].ext = "keydown"}

\* The mode marker was present when the event was dispatched.
Blocking == BlockCursor \in event.classList

\* C1: whenever the interceptor handles a keydown while the mode marker is
\* absent, it returns false and calls neither preventDefault nor
\* stopPropagation, whatever the key and the modifiers.
C1_FailsOpenOutsideBlockingMode ==
    \A i \in Intercepted :
        ~Blocking =>
            /\ event.handled[i].ret = FALSE
            /\ \A j \in DOMAIN event.handled[i].calls :
                  event.handled[i].calls[j] \notin {"preventDefault", "stopPropagation"}

\* Ctrl+z without the marker went through the interceptor and on to the next handler.
C1_Witness ==
    /\ event.key = "z" /\ event.ctrlKey /\ ~Blocking
    /\ Len(event.handled) > 1
    /\ event.handled[1].ext = "keydown" /\ ~event.handled[1].ret

\* C2: in blocking mode the interceptor returns true exactly for Backspace and
\* Enter (any modifiers) and for an event a configured rule matches, which is
\* z with ctrl; for anything else, z without ctrl included, it returns false.
C2_SuppressedExactlyTheTables ==
    \A i \in Intercepted :
        Blocking =>
            (event.handled[i].ret <=>
                \/ event.key \in {"Backspace", "Enter"}
                \/ (event.key = "z" /\ event.ctrlKey))

\* z with alt and meta but without ctrl passed in blocking mode.
C2_Witness ==
    /\ Blocking /\ event.key = "z" /\ ~event.ctrlKey /\ event.altKey /\ event.metaKey
    /\ \E i \in Intercepted : ~event.handled[i].ret

Modifiers == {"ctrl", "meta", "alt"}

\* Rules over the keys and modifier states of the model.
Rules == [key : Keys, ctrl : {None, Some(TRUE), Some(FALSE)},
          meta : {None, Some(TRUE), Some(FALSE)}, alt : {None, Some(TRUE), Some(FALSE)}]

EventModifier(ev, m) ==
    CASE m = "ctrl" -> ev.ctrlKey
      [] m = "meta" -> ev.metaKey
      [] m = "alt"  -> ev.altKey

\* The modifiers a rule specifies that differ from the event's.
Mismatched(rule, ev) ==
    {m \in Modifiers : rule[m] # None /\ rule[m][1] # EventModifier(ev, m)}

\* C3: a rule matches the dispatched event iff the keys are equal and no
\* modifier the rule specifies differs from the event's; and in blocking
\* mode z with ctrl is suppressed whatever alt and meta are.
C3_MatchingIsConjunctiveOverSpecified ==
    /\ ~Idle =>
          \A rule \in Rules :
              comboMatches(rule, event) <=>
                  (rule.key = event.key /\ Mismatched(rule, event) = {})
    /\ \A i \in Intercepted :
          (Blocking /\ event.key = "z" /\ event.ctrlKey) => event.handled[i].ret

\* Ctrl+alt+meta+z was suppressed in blocking mode.
C3_Witness ==
    /\ Blocking /\ event.key = "z" /\ event.ctrlKey /\ event.altKey /\ event.metaKey
    /\ \E i \in Intercepted : event.handled[i].ret

\* The interceptor is the only entry of the array at the highest tier; the
\* editor defaults and the engine are at the high tier.
InterceptorHighest(exts) ==
    \A i \in DOMAIN exts :
        /\ exts[i].ext = "keydown" => exts[i].prec = "highest"
        /\ exts[i].ext \in {"DEFAULT_EDITOR_VIEW", "helix"} => exts[i].prec = "high"

\* C4: the interceptor sits alone at the highest tier, above the editor
\* defaults and the engine; every keydown dispatched to a non-empty active set
\* reaches the interceptor first, and an event it swallows reaches no other
\* handler.
C4_InterceptorObservesFirst ==
    /\ InterceptorHighest(extensions)
    /\ InterceptorHighest(active)
    /\ (~Idle /\ active # <<>>) =>
          /\ event.handled # <<>>
          /\ event.handled[1].ext = "keydown"
          /\ Intercepted = {1}
          /\ event.handled[1].ret => Len(event.handled) = 1

\* Backspace in blocking mode, with the three extensions active, was seen by
\* the interceptor alone.
C4_Witness ==
    /\ Len(active) = 3 /\ Blocking /\ event.key = "Backspace"
    /\ Len(event.handled) = 1 /\ event.handled[1].ext = "keydown"

\* C5: whenever the interceptor returns true it has called preventDefault and
\* then stopPropagation, in that order and nothing else.
C5_PreventThenStop ==
    \A i \in Intercepted :
        event.handled[i].ret =>
            event.handled[i].calls = <<"preventDefault", "stopPropagation">>

\* Enter was suppressed.
C5_Witness ==
    /\ event.key = "Enter"
    /\ \E i \in Intercepted :
          event.handled[i].ret /\ Len(event.handled[i].calls) = 2

\* The array setEnabled(true) builds for a cursor style.
EnabledSet(cursor) ==
    <<[prec |-> "high",    ext |-> "DEFAULT_EDITOR_VIEW", config |-> None],
      [prec |-> "high",    ext |-> "helix",               config |-> Some(cursor)],
      [prec |-> "highest", ext |-> "keydown",             config |-> None]>>

\* C6: with every call awaited, the step that completes setEnabled(true,
\* print = true) shows the notice "Enabled Helix keybindings" and leaves the
\* array with exactly [defaults, engine with the current cursor style,
\* interceptor at highest].
C6_EnableScenario ==
    [][(/\ pending # <<>>
        /\ pending[1].fn = "setEnabled" /\ pending[1].value /\ pending[1].print
        /\ pending' = RemoveAt(pending, 1))
       => /\ notices' = Append(notices, "Enabled Helix keybindings")
          /\ extensions' = EnabledSet(settings'.cursorInInsertMode)
          /\ Len(extensions') = 3]_vars

\* From the defaults, one toggle of the command has completed.
C6_Witness ==
    /\ pc = "done" /\ pending = <<>>
    /\ notices = <<"Enabled Helix keybindings">>
    /\ data = saveData([DEFAULT_SETTINGS EXCEPT !.enableHelixKeybindings = TRUE])
    /\ Len(extensions) = 3 /\ active = extensions

\* The settings exist: loadSettings has run.
Loaded == pc \in {"setEnabled", "done"}

\* C7: from every reachable state, the array after two setEnabled(true) calls
\* in a row equals the array after one: same entries, same order.
C7_EnableIdempotent ==
    Loaded =>
        LET once  == rebuild(extensions, TRUE, settings)
            after == [settings EXCEPT !.enableHelixKeybindings = TRUE]
            twice == rebuild(once, TRUE, after)
        IN  twice = once /\ Len(twice) = 3

\* Two setEnabled(true) calls are in flight and the array has three entries.
C7_Witness ==
    /\ Len(pending) = 2
    /\ \A i \in DOMAIN pending : pending[i].fn = "setEnabled" /\ pending[i].value
    /\ Len(extensions) = 3

WellFormedSettings ==
    [enableHelixKeybindings : BOOLEAN, cursorInInsertMode : PersistedCursors]

\* C8: when onload loads a record that is what saving s writes, for a
\* well-formed s, the settings loaded equal s; and saving and loading the
\* settings of any reachable state gives them back.
C8_SaveLoadRoundTrip ==
    [][/\ (pc = "loadSettings" /\ pc' = "setEnabled") =>
             \A s \in WellFormedSettings : data = saveData(s) => settings' = s
       /\ (pc' \in {"setEnabled", "done"}) =>
             loadSettings(saveData(settings')) = settings']_vars

\* onload has loaded a stored record that differs from the defaults in both fields.
C8_Witness ==
    /\ pc = "setEnabled" /\ Len(pending) = 1 /\ pending[1].caller = "onload"
    /\ settings = [enableHelixKeybindings |-> TRUE, cursorInInsertMode |-> "block"]
    /\ data = saveData(settings)

Callers == {"onload", "command", "toggle", "reload"}

\* C9: every setEnabled call, whatever value, reload and print, leaves a write
\* of the settings in flight whose record has the enable flag equal to value;
\* and the step that completes the call has written that record.
C9_EveryCallPersists ==
    [][/\ Loaded \/ pc = "loadSettings" =>
            \A value \in BOOLEAN, reload \in BOOLEAN, print \in BOOLEAN,
               caller \in Callers,
               rest \in {pending} \cup {RemoveAt(pending, i) : i \in DOMAIN pending} :
                  setEnabled(IF Loaded THEN settings ELSE loadSettings(data),
                             value, reload, print, caller, rest)
                  => /\ pending' # <<>>
                     /\ pending'[Len(pending')].fn = "setEnabled"
                     /\ pending'[Len(pending')].saved = saveData(settings')
                     /\ pending'[Len(pending')].saved.enableHelixKeybindings = Some(value)
       /\ \A i \in DOMAIN pending :
            (pending[i].fn = "setEnabled" /\ pending' = RemoveAt(pending, i))
            => /\ data' = pending[i].saved
               /\ data'.enableHelixKeybindings = Some(pending[i].value)]_vars

\* After the command enabled the keybindings, a call without a notice disabled
\* them, and its record is the one stored.
C9_Witness ==
    /\ pending = <<>> /\ pc = "done"
    /\ data.enableHelixKeybindings = Some(FALSE)
    /\ settings.enableHelixKeybindings = FALSE
    /\ notices = <<"Enabled Helix keybindings">>

\* C10: once the settings are loaded, in every interleaving of the handlers and
\* with calls suspended at their await, the array is empty exactly when the
\* enable flag is false and has exactly three entries when it is true.
C10_FlagAndSetInStep ==
    Loaded =>
        /\ (extensions = <<>>) <=> ~settings.enableHelixKeybindings
        /\ settings.enableHelixKeybindings => Len(extensions) = 3

\* A cursor change and a disabling call are both suspended at their await.
C10_Witness ==
    /\ Len(pending) = 2
    /\ pending[1].fn = "onChange" /\ pending[2].fn = "setEnabled"
    /\ ~settings.enableHelixKeybindings /\ extensions = <<>>
    /\ active # <<>>

====
